---- MODULE Spec2Model ----
(***************************************************************************)
(* Probabilistic association-rule mining for prerequisite discovery        *)
(* (prerequisites.py): getPatterns, DP, DP2, ARP, ARM, ARO.                *)
(*                                                                         *)
(* Numbers.  Every probability of the program is a rational; the model     *)
(* carries the integer numerator over a denominator that is known from     *)
(* the position in the computation:                                        *)
(*   - a cell of the data frame is v / ValueDen with v in 0..ValueDen;     *)
(*   - pix (the per-record probability) is a numerator over PixDen;        *)
(*   - fx after n records is a list of numerators over PixDen^n;           *)
(*   - the value ARP returns is a numerator over the product of the        *)
(*     denominators of its two pmfs.                                       *)
(* With ValueDen a power of two these are the values the program's         *)
(* floating-point arithmetic computes exactly.  The one place where the    *)
(* program's floating point is not exact on the thresholds used here, the  *)
(* quotient (1 - minconf) / minconf at minconf = 0.8, is modelled by what  *)
(* it returns (see RatioRoundsDown).                                       *)
(*                                                                         *)
(* Lists are 1-indexed sequences: the program's fx[k] is fx[k + 1] here.   *)
(***************************************************************************)
EXTENDS Integers, Sequences, FiniteSets, TLC

VARIABLES
    pc,        \* which function is running and where it is
    columns,   \* df.columns: the column identifiers, in the frame's order
    df,        \* the records; df[i][e] is the numerator of the value of column e
    palist,    \* getPatterns: the list being built
    kc1, kc2,  \* getPatterns: positions of the two nested loops in KCs
    pat,       \* DP / DP2: the pattern
    fx,        \* DP / DP2: the running pmf
    nrec,      \* DP / DP2: number of records of df.index already consumed
    fxy, fxny, \* ARP: the two pmfs (numerators over pmfDen)
    minsup,    \* threshold: minimum support count
    minconf,   \* threshold: <<a, b>> stands for a / b
    minprob,   \* threshold: <<a, b>> stands for a / b
    i,         \* ARP: the for-loop variable
    prAR,      \* ARP: the accumulator
    pairs,     \* ARM / ARO: pairs + revpairs
    xy,        \* ARM / ARO: number of pairs already processed
    ars,       \* ARM / ARO: rules
    arps       \* ARO: probabilities

vars == <<pc, columns, df, palist, kc1, kc2, pat, fx, nrec, fxy, fxny,
          minsup, minconf, minprob, i, prAR, pairs, xy, ars, arps>>

----------------------------------------------------------------------------
(* Bounds of the model *)

\* largest number of columns of a frame handed to getPatterns alone
MaxCols == 4

\* largest number of records of a frame
MaxN == 3

\* the cells of a frame are the multiples of 1 / ValueDen in [0, 1]
ValueDen == 2

\* a frame handed to ARM / ARO has at most this many columns ...
MaxColsAR == 3

\* ... and at most this many cells
MaxCells == 6

\* the pmfs handed to ARP alone have entries that are multiples of 1 / PmfDen
PmfDen == 2

\* the pmfs handed to ARP alone have at most this many entries beyond fx[0]
MaxPmfN == 4

\* minsup ranges over 0..MaxMinsup for ARM / ARO, and from -MaxMinsup - 1 to
\* one past the last index of the pmf for ARP alone
MaxMinsup == 2

----------------------------------------------------------------------------
(* Helpers *)

RECURSIVE SumSeq(_)
SumSeq(s) == IF s = <<>> THEN 0 ELSE Head(s) + SumSeq(Tail(s))

RECURSIVE Pow(_, _)
Pow(b, e) == IF e = 0 THEN 1 ELSE b * Pow(b, e - 1)

Reverse(s) == [t \in 1..Len(s) |-> s[Len(s) + 1 - t]]

\* all sequences over S of length n without repetition
DistinctSeqs(S, n) == {s \in [1..n -> S] : \A a, b \in 1..n : a # b => s[a] # s[b]}

\* the denominator of pix
PixDen == ValueDen * ValueDen

Vals == 0..ValueDen

\* the data frames with m columns (identifiers 1..m) and n records
Frames(m, n) == [1..n -> [1..m -> Vals]]

----------------------------------------------------------------------------
(* getPatterns *)

\* sorted((kc1, kc2))
Sorted2(a, b) == IF a <= b THEN <<a, b>> ELSE <<b, a>>

\* x in list
InList(x, list) == \E t \in 1..Len(list) : list[t] = x

\* the condition of the if in the inner loop
GPCond(a, b, list) == a # b /\ ~InList(Sorted2(a, b), list)

\* a variant of the loop body that stores the pair as met, not sorted
GPBodyUnsorted(a, b, list) ==
    IF a # b /\ ~InList(<<a, b>>, list) THEN Append(list, <<a, b>>) ELSE list

\* one pass of the inner loop body
GPBody(a, b, list) ==
    IF GPCond(a, b, list) THEN Append(list, Sorted2(a, b)) ELSE list

\* the nested loops, from position t of the m * m iterations (t counts from 0)
RECURSIVE GPLoop(_, _, _)
GPLoop(KCs, t, list) ==
    LET m == Len(KCs) IN
    IF t >= m * m THEN list
    ELSE GPLoop(KCs, t + 1, GPBody(KCs[(t \div m) + 1], KCs[(t % m) + 1], list))

getPatterns(KCs) == GPLoop(KCs, 0, <<>>)

----------------------------------------------------------------------------
(* The parts of the state a function does not use stay at these values *)

IdleGP  == palist = <<>> /\ kc1 = 0 /\ kc2 = 0
IdleDP  == pat = <<>> /\ fx = <<>> /\ nrec = 0
IdleARP == fxy = <<>> /\ fxny = <<>> /\ i = 0 /\ prAR = 0
IdleARx == pairs = <<>> /\ xy = 0 /\ ars = <<>> /\ arps = <<>>
IdleThr == minsup = 0 /\ minconf = <<1, 1>> /\ minprob = <<1, 1>>

----------------------------------------------------------------------------
(* getPatterns as a state machine: one step per pass of the inner loop *)

InitGP ==
    /\ pc = "getPatterns"
    /\ \E m \in 0..MaxCols : columns \in DistinctSeqs(1..MaxCols, m)
    /\ df = <<>>
    /\ palist = <<>> /\ kc1 = 1 /\ kc2 = 1
    /\ IdleDP /\ IdleARP /\ IdleARx /\ IdleThr

GPAdvance ==
    IF kc2 < Len(columns) THEN kc1' = kc1 /\ kc2' = kc2 + 1
                          ELSE kc1' = kc1 + 1 /\ kc2' = 1

GPAppend ==
    /\ pc = "getPatterns" /\ kc1 <= Len(columns)
    /\ GPCond(columns[kc1], columns[kc2], palist)
    /\ palist' = GPBody(columns[kc1], columns[kc2], palist)
    /\ GPAdvance
    /\ UNCHANGED <<pc, columns, df, pat, fx, nrec, fxy, fxny, minsup, minconf,
                   minprob, i, prAR, pairs, xy, ars, arps>>

GPSkip ==
    /\ pc = "getPatterns" /\ kc1 <= Len(columns)
    /\ ~GPCond(columns[kc1], columns[kc2], palist)
    /\ palist' = GPBody(columns[kc1], columns[kc2], palist)
    /\ GPAdvance
    /\ UNCHANGED <<pc, columns, df, pat, fx, nrec, fxy, fxny, minsup, minconf,
                   minprob, i, prAR, pairs, xy, ars, arps>>

GPReturn ==
    /\ pc = "getPatterns" /\ kc1 > Len(columns)
    /\ pc' = "done"
    /\ UNCHANGED <<columns, df, palist, kc1, kc2, pat, fx, nrec, fxy, fxny,
                   minsup, minconf, minprob, i, prAR, pairs, xy, ars, arps>>

NextGP == GPAppend \/ GPSkip \/ GPReturn

SpecGP == InitGP /\ [][NextGP]_vars

\* the first of the m * m passes of the nested loops that meets the pair p
FirstSeen(p, KCs) ==
    LET m == Len(KCs)
        hits == {(s - 1) * m + (t - 1) : s \in 1..m, t \in 1..m}
        met == {h \in hits : /\ KCs[(h \div m) + 1] # KCs[(h % m) + 1]
                             /\ {KCs[(h \div m) + 1], KCs[(h % m) + 1]} = {p[1], p[2]}}
    IN CHOOSE h \in met : \A g \in met : h <= g

\* C6: when getPatterns returns on m distinct column identifiers, palist holds
\* exactly the C(m,2) unordered pairs of distinct identifiers, each once and
\* each stored sorted, in the order in which the nested column-by-column
\* iteration first meets them; it is empty when m < 2.
C6_GetPatternsCombinations ==
    pc = "done" =>
        LET m == Len(columns)
            ids == {columns[t] : t \in 1..m}
        IN /\ {palist[t] : t \in 1..Len(palist)}
                = {p \in ids \X ids : p[1] < p[2]}
           /\ 2 * Len(palist) = m * (m - 1)
           /\ \A s, t \in 1..Len(palist) :
                s < t => FirstSeen(palist[s], columns) < FirstSeen(palist[t], columns)
           /\ (m < 2 => palist = <<>>)
           /\ palist = getPatterns(columns)

C6_Witness ==
    /\ pc = "done" /\ Len(columns) = 3 /\ Len(palist) = 3
    /\ columns[1] > columns[2]

----------------------------------------------------------------------------
(* DP and DP2 *)

\* a variant without the leading 1:  [0 for i in range(len(df) + 1)]
FxInitAllZero(n) == [k \in 1..(n + 1) |-> 0]

\* fx = [1] + [0 for i in range(len(df))]
FxInit(n) == [k \in 1..(n + 1) |-> IF k = 1 THEN 1 ELSE 0]

\* DP: pix = 1; for e in pat: pix = pix * df.ix[i][e]   (a pattern is a pair)
PixDP(rec, p) == rec[p[1]] * rec[p[2]]

\* a variant of DP2's pix that is DP's:  df.ix[i][pat[0]] * df.ix[i][pat[1]]
PixDP2AsConjunction(rec, p) == rec[p[1]] * rec[p[2]]

\* DP2: pix = df.ix[i][pat[0]] * (1 - df.ix[i][pat[1]])
PixDP2(rec, p) == rec[p[1]] * (ValueDen - rec[p[2]])

\* a variant of the update in which fx2 and fx are the same list, so that
\* fx[k-1] is read after it was overwritten
RECURSIVE DPStepAliased(_, _)
DPStepAliased(f, pix) ==
    IF Len(f) = 1 THEN <<(PixDen - pix) * f[1]>>
    ELSE LET front == DPStepAliased(SubSeq(f, 1, Len(f) - 1), pix)
         IN Append(front, pix * front[Len(front)] + (PixDen - pix) * f[Len(f)])

\* the body of the record loop after pix: fx2 from fx, then fx = copy of fx2
DPStep(f, pix) ==
    [k \in 1..Len(f) |->
        IF k = 1 THEN (PixDen - pix) * f[1]
        ELSE pix * f[k - 1] + (PixDen - pix) * f[k]]

RECURSIVE DPLoop(_, _, _, _)
DPLoop(frame, p, t, f) ==
    IF t > Len(frame) THEN f
    ELSE DPLoop(frame, p, t + 1, DPStep(f, PixDP(frame[t], p)))

RECURSIVE DP2Loop(_, _, _, _)
DP2Loop(frame, p, t, f) ==
    IF t > Len(frame) THEN f
    ELSE DP2Loop(frame, p, t + 1, DPStep(f, PixDP2(frame[t], p)))

DP(frame, p) == DPLoop(frame, p, 1, FxInit(Len(frame)))

DP2(frame, p) == DP2Loop(frame, p, 1, FxInit(Len(frame)))

(* DP and DP2 as state machines: one step per record *)

InitDP ==
    /\ pc \in {"DP", "DP2"}
    /\ columns = <<1, 2>>
    /\ \E n \in 0..MaxN : df \in Frames(2, n)
    \* DP's product is the same for both orders of a pair; DP2's is not
    /\ pat \in (IF pc = "DP" THEN {<<1, 2>>} ELSE {<<1, 2>>, <<2, 1>>})
    /\ fx = FxInit(Len(df))
    /\ nrec = 0
    /\ IdleGP /\ IdleARP /\ IdleARx /\ IdleThr

DPRecord ==
    /\ pc = "DP" /\ nrec < Len(df)
    /\ fx' = DPStep(fx, PixDP(df[nrec + 1], pat))
    /\ nrec' = nrec + 1
    /\ UNCHANGED <<pc, columns, df, palist, kc1, kc2, pat, fxy, fxny, minsup,
                   minconf, minprob, i, prAR, pairs, xy, ars, arps>>

DPReturn ==
    /\ pc = "DP" /\ nrec = Len(df)
    /\ pc' = "DP_done"
    /\ UNCHANGED <<columns, df, palist, kc1, kc2, pat, fx, nrec, fxy, fxny,
                   minsup, minconf, minprob, i, prAR, pairs, xy, ars, arps>>

DP2Record ==
    /\ pc = "DP2" /\ nrec < Len(df)
    /\ fx' = DPStep(fx, PixDP2(df[nrec + 1], pat))
    /\ nrec' = nrec + 1
    /\ UNCHANGED <<pc, columns, df, palist, kc1, kc2, pat, fxy, fxny, minsup,
                   minconf, minprob, i, prAR, pairs, xy, ars, arps>>

DP2Return ==
    /\ pc = "DP2" /\ nrec = Len(df)
    /\ pc' = "DP2_done"
    /\ UNCHANGED <<columns, df, palist, kc1, kc2, pat, fx, nrec, fxy, fxny,
                   minsup, minconf, minprob, i, prAR, pairs, xy, ars, arps>>

NextDP == DPRecord \/ DPReturn \/ DP2Record \/ DP2Return

SpecDP == InitDP /\ [][NextDP]_vars

\* sum and product of f over the finite set D
RECURSIVE SumOver(_, _)
SumOver(f, D) ==
    IF D = {} THEN 0
    ELSE LET x == CHOOSE x \in D : TRUE IN f[x] + SumOver(f, D \ {x})

RECURSIVE ProdSeq(_)
ProdSeq(s) == IF s = <<>> THEN 1 ELSE Head(s) * ProdSeq(Tail(s))

\* The Poisson-binomial pmf by enumeration of the 2^n satisfy / not-satisfy
\* outcomes of the first n records (an outcome is the set S of the records
\* that satisfy the pattern): the probability (numerator over den^n) that
\* exactly k records satisfy it, the records being independent and record r
\* satisfying the pattern with probability p[r] / den.
PoissonBinomial(p, den, n, k) ==
    LET outcomes == {S \in SUBSET (1..n) : Cardinality(S) = k}
        weight == [S \in outcomes |->
                      ProdSeq([r \in 1..n |-> IF r \in S THEN p[r] ELSE den - p[r]])]
    IN SumOver(weight, outcomes)

\* C1: after the loop of DP (DP2) has consumed the first nrec records,
\* fx[k] is the probability that exactly k of them satisfy the pattern,
\* record r satisfying it independently with probability
\* value(x,r) * value(y,r) in DP and value(x,r) * (1 - value(y,r)) in DP2;
\* on return fx is the Poisson-binomial pmf over all 2^N outcomes.
C1_PoissonBinomial ==
    LET x == pat[1]
        y == pat[2]
        conj == [r \in 1..Len(df) |-> df[r][x] * df[r][y]]
        xnoty == [r \in 1..Len(df) |-> df[r][x] * (ValueDen - df[r][y])]
    IN /\ pc \in {"DP", "DP_done"} =>
            \A k \in 0..Len(df) : fx[k + 1] = PoissonBinomial(conj, PixDen, nrec, k)
       /\ pc \in {"DP2", "DP2_done"} =>
            \A k \in 0..Len(df) : fx[k + 1] = PoissonBinomial(xnoty, PixDen, nrec, k)
       /\ pc \in {"DP_done", "DP2_done"} => nrec = Len(df)

\* DP2 has returned on three records whose cells are all 1 / ValueDen
C1_Witness ==
    /\ pc = "DP2_done" /\ Len(df) = 3
    /\ \A r \in 1..3 : df[r][pat[1]] = 1 /\ df[r][pat[2]] = 1
    /\ fx[2] > 0 /\ fx[4] > 0

\* C7: at initialisation and after each record step of DP and DP2, fx has
\* N + 1 entries, none negative, summing to 1 (PixDen^nrec over PixDen^nrec);
\* for N = 0 the result is exactly [1].
C7_PmfInvariant ==
    pc \in {"DP", "DP_done", "DP2", "DP2_done"} =>
        /\ Len(fx) = Len(df) + 1
        /\ \A k \in 1..Len(fx) : fx[k] >= 0
        /\ SumSeq(fx) = Pow(PixDen, nrec)
        /\ (Len(df) = 0 => fx = <<1>>)

C7_Witness ==
    /\ pc = "DP" /\ Len(df) = 3 /\ nrec = 2
    /\ fx[1] > 0 /\ fx[2] > 0 /\ fx[3] > 0

----------------------------------------------------------------------------
(* ARP *)

\* The thresholds minconf of the model, <<a, b>> for a / b
MinConfs == {<<1, 2>>, <<3, 4>>, <<4, 5>>, <<1, 1>>}

\* (1 - minconf) / minconf is computed in binary floating point.  For 1/2, 3/4
\* and 1 every comparison of the loop comes out as for the exact quotient.
\* For 0.8 the quotient is 0.24999999999999994, just below 1/4, and so is
\* every multiple of it by a positive i.
RatioRoundsDown(c) == c = <<4, 5>>

\* a variant with the quotient inverted: minconf / (1 - minconf)
ExceedsInverted(j, ii, c) == j * (c[2] - c[1]) > c[1] * ii

\* the test of the while loop:  j > ((1 - minconf) / minconf) * i
Exceeds(j, ii, c) ==
    IF RatioRoundsDown(c) /\ ii > 0
    THEN j * c[1] >= (c[2] - c[1]) * ii
    ELSE j * c[1] > (c[2] - c[1]) * ii

\* the while loop, from position j (counted from 0) with prCum = acc
RECURSIVE PrCumLoop(_, _, _, _, _)
PrCumLoop(f, ii, c, j, acc) ==
    IF j < Len(f) /\ ~Exceeds(j, ii, c)
    THEN PrCumLoop(f, ii, c, j + 1, acc + f[j + 1])
    ELSE acc

\* a variant that starts the running sum at 1 (as pix starts in DP)
PrCumFromOne(f, ii, c) == PrCumLoop(f, ii, c, 0, 1)

\* j = 0; prCum = 0; while ...
PrCum(f, ii, c) == PrCumLoop(f, ii, c, 0, 0)

\* list[k] for a Python list: a negative k counts from the end
PyIndexRaises(list, k) == k >= Len(list) \/ k < -Len(list)

PyIndex(list, k) == IF k >= 0 THEN list[k + 1] ELSE list[Len(list) + k + 1]

\* for i in range(minsup, len(fxy)): the first value of i
ARPRangeStart(s) == s

\* the for loop from i = ii with prAR = acc; defined when no fxy[i] raises
RECURSIVE ARPLoop(_, _, _, _, _)
ARPLoop(f, g, ii, c, acc) ==
    IF ii >= Len(f) THEN acc
    ELSE ARPLoop(f, g, ii + 1, c, acc + PrCum(g, ii, c) * PyIndex(f, ii))

\* ARP raises IndexError at its first pass when fxy[minsup] does
ARPRaises(f, s) == ARPRangeStart(s) < Len(f) /\ PyIndexRaises(f, ARPRangeStart(s))

ARP(f, g, s, c) == ARPLoop(f, g, ARPRangeStart(s), c, 0)

\* the lists of n + 1 non-negative numerators over den that sum to den
Pmfs(n, den) == {f \in [1..(n + 1) -> 0..den] : SumSeq(f) = den}

MinSupsARP == (-MaxMinsup - 1)..(MaxPmfN + 1)

(* ARP as a state machine: one step per pass of the for loop *)

InitARP ==
    /\ pc = "ARP"
    /\ columns = <<>> /\ df = <<>>
    /\ \E n \in 0..MaxPmfN : fxy \in Pmfs(n, PmfDen) /\ fxny \in Pmfs(n, PmfDen)
    /\ minsup \in MinSupsARP
    /\ minconf \in MinConfs
    /\ minprob = <<1, 1>>
    /\ i = ARPRangeStart(minsup)
    /\ prAR = 0
    /\ IdleGP /\ IdleDP /\ IdleARx

ARPPass ==
    /\ pc = "ARP" /\ i < Len(fxy) /\ ~PyIndexRaises(fxy, i)
    /\ prAR' = prAR + PrCum(fxny, i, minconf) * PyIndex(fxy, i)
    /\ i' = i + 1
    /\ UNCHANGED <<pc, columns, df, palist, kc1, kc2, pat, fx, nrec, fxy, fxny,
                   minsup, minconf, minprob, pairs, xy, ars, arps>>

ARPIndexError ==
    /\ pc = "ARP" /\ i < Len(fxy) /\ PyIndexRaises(fxy, i)
    /\ pc' = "ARP_IndexError"
    /\ UNCHANGED <<columns, df, palist, kc1, kc2, pat, fx, nrec, fxy, fxny,
                   minsup, minconf, minprob, i, prAR, pairs, xy, ars, arps>>

ARPReturn ==
    /\ pc = "ARP" /\ i >= Len(fxy)
    /\ pc' = "ARP_done"
    /\ UNCHANGED <<columns, df, palist, kc1, kc2, pat, fx, nrec, fxy, fxny,
                   minsup, minconf, minprob, i, prAR, pairs, xy, ars, arps>>

NextARP == ARPPass \/ ARPIndexError \/ ARPReturn

SpecARP == InitARP /\ [][NextARP]_vars

\* J(k): the largest j in 0..N with j <= ((1 - minconf) / minconf) * k,
\* for minconf = c[1] / c[2], in exact arithmetic
JBound(n, k, c) ==
    LET ok == {j \in 0..n : j * c[1] <= (c[2] - c[1]) * k}
    IN CHOOSE j \in ok : \A h \in ok : h <= j

\* the sum over k = s..N of fxy[k] * (sum over j = 0..J(k) of fxny[j])
RuleSum(f, g, s, c) ==
    LET n == Len(f) - 1
        inner == [k \in 0..n |-> SumSeq(SubSeq(g, 1, JBound(n, k, c) + 1))]
    IN SumOver([k \in 0..n |-> f[k + 1] * inner[k]], {k \in 0..n : k >= s})

\* C2: for pmfs of length N + 1, minsup >= 0 and minconf in (0, 1], ARP
\* returns the sum over k = minsup..N of fxy[k] * (sum over j = 0..J(k) of
\* fxny[j]), J(k) the largest j in 0..N with j <= ((1-minconf)/minconf) * k;
\* in particular 0 whenever minsup > N.
C2_RuleSum ==
    (pc = "ARP_done" /\ minsup >= 0) =>
        /\ prAR = RuleSum(fxy, fxny, minsup, minconf)
        /\ (minsup > Len(fxy) - 1 => prAR = 0)

\* C9 as stated: for any integer minsup (below 0, within 0..N, above N) and
\* any minconf in (0, 1], the value ARP returns lies in [0, 1].
C9_AnyMinsupInUnitInterval ==
    pc = "ARP_done" => (0 <= prAR /\ prAR <= PmfDen * PmfDen)

\* C9 amended: for minsup >= 0 and any minconf in (0, 1], the value ARP
\* returns lies in [0, 1].
C9_InUnitInterval ==
    (pc = "ARP_done" /\ minsup >= 0) => (0 <= prAR /\ prAR <= PmfDen * PmfDen)

C9_Witness ==
    /\ pc = "ARP_done" /\ minsup = 1 /\ Len(fxy) = 4
    /\ prAR = PmfDen * PmfDen

\* C8 as stated: ARP is non-increasing in minsup at fixed minconf and
\* non-increasing in minconf at fixed minsup, for every minsup.
C8_MonotoneAnyMinsup ==
    pc = "ARP_done" =>
        /\ \A s2 \in MinSupsARP : minsup <= s2 => prAR >= ARP(fxy, fxny, s2, minconf)
        /\ \A c2 \in MinConfs :
              minconf[1] * c2[2] <= c2[1] * minconf[2]
                  => prAR >= ARP(fxy, fxny, minsup, c2)

\* C8 amended: ARP is non-increasing in minsup at fixed minconf for every
\* minsup on which it returns, and non-increasing in minconf (c1 <= c2) at
\* fixed minsup when minsup >= 0 or c2 < 1.
C8_Monotone ==
    pc = "ARP_done" =>
        /\ \A s2 \in MinSupsARP : minsup <= s2 => prAR >= ARP(fxy, fxny, s2, minconf)
        /\ \A c2 \in MinConfs :
              (/\ minconf[1] * c2[2] <= c2[1] * minconf[2]
               /\ (minsup >= 0 \/ c2[1] < c2[2]))
                  => prAR >= ARP(fxy, fxny, minsup, c2)

\* a call where both thresholds matter: raising either one lowers the result
C8_Witness ==
    /\ pc = "ARP_done" /\ minsup = 1 /\ minconf = <<1, 2>>
    /\ prAR > ARP(fxy, fxny, 2, minconf)
    /\ prAR > ARP(fxy, fxny, minsup, <<3, 4>>)

----------------------------------------------------------------------------
(* ARM and ARO *)

\* a variant that lists each pair's two orientations side by side
ARMPairsInterleaved(KCs) ==
    LET pl == getPatterns(KCs)
    IN [t \in 1..(2 * Len(pl)) |->
           IF t % 2 = 1 THEN pl[(t + 1) \div 2]
           ELSE <<pl[t \div 2][2], pl[t \div 2][1]>>]

\* pairs = getPatterns(df); revpairs = [list(reversed(pair)) ...]; pairs + revpairs
ARMPairs(KCs) ==
    LET pl == getPatterns(KCs)
    IN pl \o [t \in 1..Len(pl) |-> <<pl[t][2], pl[t][1]>>]

\* arp = ARP(DP(df, xy), DP2(df, xy), minsup, minconf): a numerator over ArpDen(df)
RuleProb(frame, p, s, c) == ARP(DP(frame, p), DP2(frame, p), s, c)

ArpDen(frame) == Pow(PixDen, Len(frame)) * Pow(PixDen, Len(frame))

\* arp >= minprob, for minprob = mp[1] / mp[2]
ARMKeeps(arp, den, mp) == arp * mp[2] >= mp[1] * den

\* list.insert(k, x)
InsertAt(list, k, x) == SubSeq(list, 1, k) \o <<x>> \o SubSeq(list, k + 1, Len(list))

\* bisect.insort(a, x) inserts x at bisect_right(a, x): the binary search
RECURSIVE BisectRight(_, _, _, _)
BisectRight(a, x, lo, hi) ==
    IF lo >= hi THEN lo
    ELSE LET mid == (lo + hi) \div 2
         IN IF x < a[mid + 1] THEN BisectRight(a, x, lo, mid)
            ELSE BisectRight(a, x, mid + 1, hi)

\* list.index(x): the position (from 0) of the first entry equal to x
ListIndex(list, x) ==
    (CHOOSE t \in 1..Len(list) : list[t] = x /\ \A u \in 1..(t - 1) : list[u] # x) - 1

\* a variant that appends the pair instead of inserting it
AROInsertAppend(arsL, arpsL, p, arp) ==
    <<Append(arsL, p), InsertAt(arpsL, BisectRight(arpsL, arp, 0, Len(arpsL)), arp)>>

\* a variant that inserts the pair where insort put the probability
AROInsertAtBisect(arsL, arpsL, p, arp) ==
    LET k == BisectRight(arpsL, arp, 0, Len(arpsL))
    IN <<InsertAt(arsL, k, p), InsertAt(arpsL, k, arp)>>

\* bisect.insort(arps, arp); ars.insert(arps.index(arp), xy): the new <<ars, arps>>
AROInsert(arsL, arpsL, p, arp) ==
    LET arps2 == InsertAt(arpsL, BisectRight(arpsL, arp, 0, Len(arpsL)), arp)
    IN <<InsertAt(arsL, ListIndex(arps2, arp), p), arps2>>

MinConfsAR == {<<1, 2>>, <<4, 5>>}

MinProbs == {<<1, 2>>, <<9, 10>>}

\* the cells of the frames handed to ARM / ARO: 0, 1 / ValueDen and 1
CellsAR == {0, 1, ValueDen}

\* the frames handed to ARM / ARO: columns 1..m in increasing or decreasing order
InitFrame ==
    /\ \E m \in 0..MaxColsAR :
          /\ columns \in {[t \in 1..m |-> t], [t \in 1..m |-> m + 1 - t]}
          /\ \E n \in 0..MaxN : m * n <= MaxCells /\ df \in [1..n -> [1..m -> CellsAR]]
    /\ minsup \in 0..MaxMinsup
    /\ minconf \in MinConfsAR
    /\ pairs = <<>> /\ xy = 0 /\ ars = <<>> /\ arps = <<>>
    /\ IdleGP /\ IdleDP /\ IdleARP

InitARM == pc = "ARM_start" /\ minprob \in MinProbs /\ InitFrame

ARMStart ==
    /\ pc = "ARM_start"
    /\ pairs' = ARMPairs(columns)
    /\ pc' = "ARM"
    /\ UNCHANGED <<columns, df, palist, kc1, kc2, pat, fx, nrec, fxy, fxny,
                   minsup, minconf, minprob, i, prAR, xy, ars, arps>>

ARMKeep ==
    /\ pc = "ARM" /\ xy < Len(pairs)
    /\ ARMKeeps(RuleProb(df, pairs[xy + 1], minsup, minconf), ArpDen(df), minprob)
    /\ ars' = Append(ars, pairs[xy + 1])
    /\ xy' = xy + 1
    /\ UNCHANGED <<pc, columns, df, palist, kc1, kc2, pat, fx, nrec, fxy, fxny,
                   minsup, minconf, minprob, i, prAR, pairs, arps>>

ARMDrop ==
    /\ pc = "ARM" /\ xy < Len(pairs)
    /\ ~ARMKeeps(RuleProb(df, pairs[xy + 1], minsup, minconf), ArpDen(df), minprob)
    /\ xy' = xy + 1
    /\ UNCHANGED <<pc, columns, df, palist, kc1, kc2, pat, fx, nrec, fxy, fxny,
                   minsup, minconf, minprob, i, prAR, pairs, ars, arps>>

ARMReturn ==
    /\ pc = "ARM" /\ xy = Len(pairs)
    /\ pc' = "ARM_done"
    /\ UNCHANGED <<columns, df, palist, kc1, kc2, pat, fx, nrec, fxy, fxny,
                   minsup, minconf, minprob, i, prAR, pairs, xy, ars, arps>>

NextARM == ARMStart \/ ARMKeep \/ ARMDrop \/ ARMReturn

SpecARM == InitARM /\ [][NextARM]_vars

InitARO == pc = "ARO_start" /\ minprob = <<1, 1>> /\ InitFrame

AROStart ==
    /\ pc = "ARO_start"
    /\ pairs' = ARMPairs(columns)
    /\ pc' = "ARO"
    /\ UNCHANGED <<columns, df, palist, kc1, kc2, pat, fx, nrec, fxy, fxny,
                   minsup, minconf, minprob, i, prAR, xy, ars, arps>>

AROPass ==
    /\ pc = "ARO" /\ xy < Len(pairs)
    /\ LET new == AROInsert(ars, arps, pairs[xy + 1],
                            RuleProb(df, pairs[xy + 1], minsup, minconf))
       IN ars' = new[1] /\ arps' = new[2]
    /\ xy' = xy + 1
    /\ UNCHANGED <<pc, columns, df, palist, kc1, kc2, pat, fx, nrec, fxy, fxny,
                   minsup, minconf, minprob, i, prAR, pairs>>

\* return list(reversed(ars)), list(reversed(arps))
AROReturn ==
    /\ pc = "ARO" /\ xy = Len(pairs)
    /\ ars' = Reverse(ars) /\ arps' = Reverse(arps)
    /\ pc' = "ARO_done"
    /\ UNCHANGED <<columns, df, palist, kc1, kc2, pat, fx, nrec, fxy, fxny,
                   minsup, minconf, minprob, i, prAR, pairs, xy>>

NextARO == AROStart \/ AROPass \/ AROReturn

SpecARO == InitARO /\ [][NextARO]_vars

\* the oriented pairs of distinct column identifiers
OrientedPairs == 
    LET ids == {columns[t] : t \in 1..Len(columns)}
    IN {p \in ids \X ids : p[1] # p[2]}

\* the position of x in a list that holds it once
Pos(x, list) == CHOOSE t \in 1..Len(list) : list[t] = x

\* the place of an oriented pair in ARM's order: the forward orientations in
\* getPatterns' order, then the reversed ones in the same order
Rank(p) ==
    LET pl == getPatterns(columns)
    IN IF p[1] < p[2] THEN Pos(p, pl) ELSE Len(pl) + Pos(<<p[2], p[1]>>, pl)

\* the rule probability of p reaches minprob
Survives(p) ==
    ARP(DP(df, p), DP2(df, p), minsup, minconf) * minprob[2] >= minprob[1] * ArpDen(df)

\* C3: ARM returns exactly the oriented pairs whose rule probability
\* ARP(DP(x,y), DP2(x,y), minsup, minconf) is >= minprob, each once, the
\* surviving forward orientations in getPatterns' order followed by the
\* surviving reversed orientations in the same order.
C3_ARMResult ==
    pc = "ARM_done" =>
        /\ \A p \in OrientedPairs : InList(p, ars) <=> Survives(p)
        /\ \A t \in 1..Len(ars) : ars[t] \in OrientedPairs
        /\ \A s, t \in 1..Len(ars) : s < t => Rank(ars[s]) < Rank(ars[t])

\* three columns; some forward and some reversed orientations survive, some do not
C3_Witness ==
    /\ pc = "ARM_done" /\ Len(columns) = 3 /\ Len(df) = 2
    /\ Len(ars) = 3
    /\ \E s, t \in 1..Len(ars) : ars[s][1] < ars[s][2] /\ ars[t][1] > ars[t][2]
    /\ \E p \in OrientedPairs : p[1] < p[2] /\ ~InList(p, ars)

\* the data set of the end-to-end example: columns X = 1 and Y = 2, three
\* records, every cell 1; minsup = 2, minconf = 0.8, minprob = 0.9
ToyRun ==
    /\ Len(columns) = 2 /\ Len(df) = 3
    /\ \A r \in 1..3 : \A e \in 1..2 : df[r][e] = ValueDen
    /\ minsup = 2 /\ minconf = <<4, 5>> /\ minprob = <<9, 10>>

\* C4 as stated: on the example ARM returns [X, Y] and does not return [Y, X].
C4_ToyOnlyForward ==
    (pc = "ARM_done" /\ ToyRun) => (InList(<<1, 2>>, ars) /\ ~InList(<<2, 1>>, ars))

\* C4 amended: on the example ARM returns both [X, Y] and [Y, X], in this order.
C4_ToyBothOrientations ==
    (pc = "ARM_done" /\ ToyRun) => ars = << <<1, 2>>, <<2, 1>> >>

C4_Witness == pc = "ARM_done" /\ ToyRun /\ columns = <<1, 2>> /\ Len(ars) = 2

\* s is sorted in non-decreasing order
Ascending(s) == \A t \in 1..(Len(s) - 1) : s[t] <= s[t + 1]

\* C5: after every insertion of ARO's loop, ars and arps have the same
\* length, arps is sorted ascending, position t of arps is the rule
\* probability of the pair at position t of ars, and ars holds the pairs
\* processed so far, each once; on return both hold every oriented pair
\* exactly once, aligned, with the probabilities non-increasing - also when
\* several pairs have equal probabilities.
C5_AROAligned ==
    pc \in {"ARO", "ARO_done"} =>
        /\ Len(ars) = xy /\ Len(arps) = xy
        /\ \A t \in 1..xy : arps[t] = ARP(DP(df, ars[t]), DP2(df, ars[t]), minsup, minconf)
        /\ {ars[t] : t \in 1..xy} = {pairs[t] : t \in 1..xy}
        /\ (pc = "ARO" => Ascending(arps))
        /\ (pc = "ARO_done" =>
              /\ Ascending(Reverse(arps))
              /\ {ars[t] : t \in 1..xy} = OrientedPairs
              /\ xy = Cardinality(OrientedPairs))

\* ARO has returned a ranking with a tie and with unequal probabilities
C5_Witness ==
    /\ pc = "ARO_done" /\ Len(columns) = 3
    /\ \E s, t \in 1..Len(arps) : s < t /\ arps[s] = arps[t] /\ arps[t] > arps[Len(arps)]
    /\ arps[1] > arps[2]

\* two pairs processed in this order have equal rule probability
Tied(s, t) ==
    /\ s < t
    /\ ARP(DP(df, pairs[s]), DP2(df, pairs[s]), minsup, minconf)
         = ARP(DP(df, pairs[t]), DP2(df, pairs[t]), minsup, minconf)

\* C10 as stated: of two pairs with equal rule probability, the one the loop
\* processed later comes earlier in the list ARO returns.
C10_TiesReversed ==
    pc = "ARO_done" =>
        \A s, t \in 1..Len(pairs) : Tied(s, t) => Pos(pairs[t], ars) < Pos(pairs[s], ars)

\* C10 amended: of two pairs with equal rule probability, the one the loop
\* processed earlier comes earlier in the list ARO returns (discovery order).
C10_TiesInDiscoveryOrder ==
    pc = "ARO_done" =>
        \A s, t \in 1..Len(pairs) : Tied(s, t) => Pos(pairs[s], ars) < Pos(pairs[t], ars)

\* a returned ranking in which three pairs tie below the top entry
C10_Witness ==
    /\ pc = "ARO_done" /\ Len(pairs) = 6
    /\ arps[1] > arps[2] /\ arps[2] = arps[4] /\ arps[2] > 0

====
